---- MODULE Spec2Model ----
(***************************************************************************)
(* Model of the BYOVD watchdog scripts:                                    *)
(*   scripts/byovd.py        policy loading and the three block tests      *)
(*   scripts/compare_hvci.py signature resolution and snapshot comparison  *)
(*                                                                         *)
(* Python values are represented as follows.                               *)
(*   str   a sequence of one-character strings, "ab" is <<"a","b">>        *)
(*   None  the value Null                                                  *)
(*   dict  a function whose DOMAIN is the set of keys that are present     *)
(*   list  a sequence                                                      *)
(*   set   a set                                                           *)
(***************************************************************************)
EXTENDS Integers, Sequences, FiniteSets, TLC

(***************************************************************************)
(* Bounds of the model.                                                    *)
(***************************************************************************)
\* longest driver feed handed to main
MaxDrivers == 2
\* most records in a saved result file compared with itself, and in two
\* different saved result files together
MaxRecords == 3

(***************************************************************************)
(* Python values.                                                          *)
(***************************************************************************)
\* None. No str equals it: every element of a str is one character long.
Null == <<"<None>">>

\* bool(v) of a value that is None or a str
Truthy(v) == v # Null /\ v # <<>>

\* d.get(k, default)
DictGet(d, k, default) == IF k \in DOMAIN d THEN d[k] ELSE default

\* {**a, **b}: the keys of both, the value of b where both have the key
DictMerge(a, b) ==
  [k \in DOMAIN a \cup DOMAIN b |-> IF k \in DOMAIN b THEN b[k] ELSE a[k]]

\* the dict d with d[k] = v assigned
DictPut(d, k, v) == [x \in DOMAIN d \cup {k} |-> IF x = k THEN v ELSE d[x]]

\* the empty dict
EmptyDict == [k \in {} |-> Null]

UpperCase == <<"A", "B", "C", "D", "E", "F", "X">>
LowerCase == <<"a", "b", "c", "d", "e", "f", "x">>

\* one character of str.lower(): the cased letters of the model's alphabet
LowerChar(c) ==
  IF \E i \in DOMAIN UpperCase : UpperCase[i] = c
  THEN LowerCase[CHOOSE i \in DOMAIN UpperCase : UpperCase[i] = c]
  ELSE c

\* s.lower()
Lower(s) == [i \in DOMAIN s |-> LowerChar(s[i])]

\* s.replace(',', '.')
ReplaceCommas(s) == [i \in DOMAIN s |-> IF s[i] = "," THEN "." ELSE s[i]]

\* the first token of s.split(), or "" when s.split() is empty
RECURSIVE SkipSpaces(_)
SkipSpaces(s) ==
  IF s # <<>> /\ Head(s) = " " THEN SkipSpaces(Tail(s)) ELSE s

RECURSIVE TakeToken(_)
TakeToken(s) ==
  IF s = <<>> \/ Head(s) = " " THEN <<>> ELSE <<Head(s)>> \o TakeToken(Tail(s))

FirstToken(s) == TakeToken(SkipSpaces(s))

\* ''.join(parts)
RECURSIVE Join(_)
Join(parts) == IF parts = <<>> THEN <<>> ELSE Head(parts) \o Join(Tail(parts))

(***************************************************************************)
(* packaging.version: parse and the ordering of release versions.          *)
(* The model's version strings are made of digits, ".", ",", " " and "x",  *)
(* so a string is a version exactly when, with surrounding blanks          *)
(* stripped, it is a dotted run of non-empty digit groups.                 *)
(***************************************************************************)
Digits == <<"0", "1", "2", "3", "4", "5", "6", "7", "8", "9">>

IsDigit(c) == \E i \in DOMAIN Digits : Digits[i] = c

DigitValue(c) == (CHOOSE i \in DOMAIN Digits : Digits[i] = c) - 1

RECURSIVE Reverse(_)
Reverse(s) == IF s = <<>> THEN <<>> ELSE Reverse(Tail(s)) \o <<Head(s)>>

\* s.strip() for blanks
Strip(s) == Reverse(SkipSpaces(Reverse(SkipSpaces(s))))

\* the "."-separated pieces of s
RECURSIVE SplitDots(_, _)
SplitDots(s, cur) ==
  IF s = <<>> THEN <<cur>>
  ELSE IF Head(s) = "." THEN <<cur>> \o SplitDots(Tail(s), <<>>)
  ELSE SplitDots(Tail(s), cur \o <<Head(s)>>)

\* int(digits)
RECURSIVE ToInt(_, _)
ToInt(s, acc) ==
  IF s = <<>> THEN acc ELSE ToInt(Tail(s), acc * 10 + DigitValue(Head(s)))

\* version.parse(s) raises InvalidVersion
InvalidVersion(s) ==
  LET parts == SplitDots(Strip(s), <<>>)
  IN  \E i \in DOMAIN parts :
        parts[i] = <<>> \/ \E j \in DOMAIN parts[i] : ~IsDigit(parts[i][j])

\* Version.release: the tuple of the numeric components
Release(s) ==
  LET parts == SplitDots(Strip(s), <<>>)
  IN  [i \in DOMAIN parts |-> ToInt(parts[i], 0)]

\* the release with its trailing zeros dropped, as the comparison key has it
RECURSIVE StripTrailingZeros(_)
StripTrailingZeros(r) ==
  IF r # <<>> /\ r[Len(r)] = 0
  THEN StripTrailingZeros(SubSeq(r, 1, Len(r) - 1))
  ELSE r

\* a <= b for tuples of integers, as Python orders tuples
RECURSIVE TupleLeq(_, _)
TupleLeq(a, b) ==
  IF a = <<>> THEN TRUE
  ELSE IF b = <<>> THEN FALSE
  ELSE IF Head(a) # Head(b) THEN Head(a) < Head(b)
  ELSE TupleLeq(Tail(a), Tail(b))

\* VersionLeq with < in the place of <=
VersionLeq_Strict(a, b) ==
  /\ StripTrailingZeros(Release(a)) # StripTrailingZeros(Release(b))
  /\ TupleLeq(StripTrailingZeros(Release(a)), StripTrailingZeros(Release(b)))

\* version.parse(a) <= version.parse(b), both parsable
VersionLeq(a, b) ==
  TupleLeq(StripTrailingZeros(Release(a)), StripTrailingZeros(Release(b)))

(***************************************************************************)
(* scripts/byovd.py                                                        *)
(*                                                                         *)
(* The feed is the JSON document of LOLDIVERS_URL: a list of entries, each *)
(* a dict with optional Id, Tags and KnownVulnerableSamples.  The policy   *)
(* document is the parsed XML: a dict with optional sections FileRules     *)
(* (lists Deny and FileAttrib of elements) and Signers (a list of          *)
(* elements with lists CertRoot and FileAttribRef); an element is the dict *)
(* of its attributes.                                                      *)
(***************************************************************************)

\* x in lst, for a list
InList(x, lst) == \E i \in DOMAIN lst : lst[i] = x

\* the samples of one feed entry, each with its _parent_driver
EntrySamples(entry) ==
  IF "KnownVulnerableSamples" \in DOMAIN entry
  THEN [i \in DOMAIN entry.KnownVulnerableSamples |->
          [k \in DOMAIN entry.KnownVulnerableSamples[i] \cup {"_parent_driver"} |->
             IF k = "_parent_driver"
             THEN [Id |-> DictGet(entry, "Id", Null),
                   Tags |-> DictGet(entry, "Tags", <<>>)]
             ELSE entry.KnownVulnerableSamples[i][k]]]
  ELSE <<>>

RECURSIVE load_loldrivers(_)
load_loldrivers(data) ==
  IF data = <<>> THEN <<>>
  ELSE EntrySamples(Head(data)) \o load_loldrivers(Tail(data))

\* the Deny elements of the document, in document order
DenyRules(doc) ==
  IF "FileRules" \in DOMAIN doc THEN doc.FileRules.Deny ELSE <<>>

\* the FileAttrib elements of the document, in document order
FileAttribRules(doc) ==
  IF "FileRules" \in DOMAIN doc THEN doc.FileRules.FileAttrib ELSE <<>>

\* the Signer elements of the document, in document order
SignerRules(doc) ==
  IF "Signers" \in DOMAIN doc THEN doc.Signers ELSE <<>>

\* CollectDenyHashes with the hash kept in the case the policy writes it in
RECURSIVE CollectDenyHashes_NoLower(_, _)
CollectDenyHashes_NoLower(rules, deny_hashes) ==
  IF rules = <<>> THEN deny_hashes
  ELSE LET hash_value == DictGet(Head(rules), "Hash", <<>>)
       IN  CollectDenyHashes_NoLower(Tail(rules),
             IF hash_value # <<>> THEN deny_hashes \cup {hash_value}
             ELSE deny_hashes)

\* deny_hashes after the loop over the Deny elements
RECURSIVE CollectDenyHashes(_, _)
CollectDenyHashes(rules, deny_hashes) ==
  IF rules = <<>> THEN deny_hashes
  ELSE LET hash_value == Lower(DictGet(Head(rules), "Hash", <<>>))
       IN  CollectDenyHashes(Tail(rules),
             IF hash_value # <<>> THEN deny_hashes \cup {hash_value}
             ELSE deny_hashes)

\* the assignment deny_file_versions[file_name.lower()] = max_version
PutFileVersion(deny_file_versions, file_name, max_version) ==
  DictPut(deny_file_versions, Lower(file_name), max_version)

\* deny_file_versions after the loop over the Deny elements
RECURSIVE CollectDenyFileVersions(_, _)
CollectDenyFileVersions(rules, deny_file_versions) ==
  IF rules = <<>> THEN deny_file_versions
  ELSE LET file_name == DictGet(Head(rules), "FileName", <<>>)
           max_version == DictGet(Head(rules), "MaximumFileVersion", <<>>)
       IN  CollectDenyFileVersions(Tail(rules),
             IF file_name # <<>> /\ max_version # <<>>
             THEN PutFileVersion(deny_file_versions, file_name, max_version)
             ELSE deny_file_versions)

\* the non-empty values of attribute attr of the elements, in order
RECURSIVE CollectAttr(_, _, _)
CollectAttr(elems, attr, lower) ==
  IF elems = <<>> THEN <<>>
  ELSE LET raw == DictGet(Head(elems), attr, <<>>)
           value == IF lower THEN Lower(raw) ELSE raw
       IN  (IF value # <<>> THEN <<value>> ELSE <<>>)
             \o CollectAttr(Tail(elems), attr, lower)

\* signer_info after the loop over the Signer elements
RECURSIVE CollectSigners(_)
CollectSigners(signers) ==
  IF signers = <<>> THEN <<>>
  ELSE LET cert_roots == CollectAttr(Head(signers).CertRoot, "Value", TRUE)
           file_attrib_refs ==
             CollectAttr(Head(signers).FileAttribRef, "RuleID", FALSE)
       IN  (IF cert_roots # <<>>
            THEN <<[cert_roots |-> cert_roots,
                    file_attrib_refs |-> file_attrib_refs]>>
            ELSE <<>>) \o CollectSigners(Tail(signers))

\* file_attribs after the loop over the FileAttrib elements
RECURSIVE CollectFileAttribs(_, _)
CollectFileAttribs(attribs, file_attribs) ==
  IF attribs = <<>> THEN file_attribs
  ELSE LET file_name == Lower(DictGet(Head(attribs), "FileName", <<>>))
           rule_id == DictGet(Head(attribs), "ID", <<>>)
       IN  CollectFileAttribs(Tail(attribs),
             IF file_name # <<>> /\ rule_id # <<>>
             THEN DictPut(file_attribs, file_name, rule_id)
             ELSE file_attribs)

\* the four tables load_policy returns
load_policy(doc) ==
  [deny_hashes |-> CollectDenyHashes(DenyRules(doc), {}),
   deny_file_versions |-> CollectDenyFileVersions(DenyRules(doc), EmptyDict),
   signer_info |-> CollectSigners(SignerRules(doc)),
   file_attribs |-> CollectFileAttribs(FileAttribRules(doc), EmptyDict)]

HashTypes == {"MD5", "SHA1", "SHA256"}

\* the lowercased non-empty hashes of the keys HashTypes of d
HashesOf(d) ==
  {Lower(DictGet(d, hash_type, <<>>)) : hash_type \in HashTypes} \ {<<>>}

\* hashes_to_check: the direct hashes and the Authentihash ones
HashesToCheck(driver) ==
  HashesOf(driver) \cup
    (IF "Authentihash" \in DOMAIN driver THEN HashesOf(driver.Authentihash)
     ELSE {})

has_blocked_hash(driver, deny_hashes) ==
  HashesToCheck(driver) \cap deny_hashes # {}

\* the comparison of has_blocked_version, with InvalidVersion caught
VersionAtMost(clean_version, max_version) ==
  /\ clean_version # <<>>
  /\ ~InvalidVersion(clean_version)
  /\ ~InvalidVersion(max_version)
  /\ VersionLeq(clean_version, max_version)

has_blocked_version(driver, deny_file_versions, file_attribs) ==
  LET original_filename == Lower(DictGet(driver, "OriginalFilename", <<>>))
      max_version == DictGet(deny_file_versions, original_filename, Null)
      driver_version == DictGet(driver, "FileVersion", <<>>)
  IN  IF original_filename = <<>> THEN FALSE
      ELSE IF ~Truthy(max_version) THEN FALSE
      ELSE IF ~Truthy(driver_version) THEN FALSE
      ELSE VersionAtMost(FirstToken(ReplaceCommas(driver_version)), max_version)

TBSHashTypes == {"MD5", "SHA1", "SHA256", "SHA384"}

\* SignerApplies with the file_attrib_refs of the signer ignored
SignerApplies_Unscoped(signer, file_attrib_id) == TRUE

\* the test made on a signer whose cert_roots hold the certificate hash
SignerApplies(signer, file_attrib_id) ==
  \/ signer.file_attrib_refs = <<>>
  \/ Truthy(file_attrib_id) /\ InList(file_attrib_id, signer.file_attrib_refs)

has_blocked_signer(driver, signer_info, file_attribs) ==
  IF "Signatures" \notin DOMAIN driver THEN FALSE
  ELSE
    LET original_filename == Lower(DictGet(driver, "OriginalFilename", <<>>))
        file_attrib_id ==
          IF original_filename # <<>>
          THEN DictGet(file_attribs, original_filename, Null)
          ELSE Null
    IN  \E s \in DOMAIN driver.Signatures :
          LET sig == driver.Signatures[s]
          IN  /\ "Certificates" \in DOMAIN sig
              /\ \E c \in DOMAIN sig.Certificates :
                   LET cert == sig.Certificates[c]
                   IN  /\ "TBS" \in DOMAIN cert
                       /\ \E hash_type \in TBSHashTypes \cap DOMAIN cert.TBS :
                            \E k \in DOMAIN signer_info :
                              /\ InList(Lower(cert.TBS[hash_type]),
                                        signer_info[k].cert_roots)
                              /\ SignerApplies(signer_info[k], file_attrib_id)

\* is_blocked with the signer test left out
is_blocked_NoSigner(driver, policy) ==
  \/ has_blocked_hash(driver, policy.deny_hashes)
  \/ has_blocked_version(driver, policy.deny_file_versions, policy.file_attribs)

\* is_blocked of generate_json_results, and the condition of main's loop
is_blocked(driver, policy) ==
  \/ has_blocked_hash(driver, policy.deny_hashes)
  \/ has_blocked_version(driver, policy.deny_file_versions, policy.file_attribs)
  \/ has_blocked_signer(driver, policy.signer_info, policy.file_attribs)

\* has_blocked_hash raises AttributeError on None.lower(): a hash of the
\* driver or of its Authentihash is present and None
HashRaises(driver) ==
  \/ \E hash_type \in HashTypes : DictGet(driver, hash_type, <<>>) = Null
  \/ /\ "Authentihash" \in DOMAIN driver
     /\ \E hash_type \in HashTypes :
          DictGet(driver.Authentihash, hash_type, <<>>) = Null

\* has_blocked_version raises AttributeError on None.lower(): the
\* OriginalFilename is present and None
VersionRaises(driver) == DictGet(driver, "OriginalFilename", <<>>) = Null

\* the order in which has_blocked_signer visits the hashes of a TBS
TBSHashOrder == <<"MD5", "SHA1", "SHA256", "SHA384">>

\* the TBS hashes of the driver in the order the loops of
\* has_blocked_signer visit them
RECURSIVE VisitedOfTBS(_, _)
VisitedOfTBS(tbs, order) ==
  IF order = <<>> THEN <<>>
  ELSE (IF Head(order) \in DOMAIN tbs THEN <<tbs[Head(order)]>> ELSE <<>>)
         \o VisitedOfTBS(tbs, Tail(order))

RECURSIVE VisitedOfCertificates(_)
VisitedOfCertificates(certs) ==
  IF certs = <<>> THEN <<>>
  ELSE (IF "TBS" \in DOMAIN Head(certs)
        THEN VisitedOfTBS(Head(certs).TBS, TBSHashOrder) ELSE <<>>)
         \o VisitedOfCertificates(Tail(certs))

RECURSIVE VisitedOfSignatures(_)
VisitedOfSignatures(sigs) ==
  IF sigs = <<>> THEN <<>>
  ELSE (IF "Certificates" \in DOMAIN Head(sigs)
        THEN VisitedOfCertificates(Head(sigs).Certificates) ELSE <<>>)
         \o VisitedOfSignatures(Tail(sigs))

\* has_blocked_signer raises AttributeError on None.lower(): the
\* OriginalFilename is None, or the loops reach a TBS hash that is None
\* before a hash that makes them return True
SignerRaises(driver, signer_info, file_attribs) ==
  /\ "Signatures" \in DOMAIN driver
  /\ \/ DictGet(driver, "OriginalFilename", <<>>) = Null
     \/ LET original_filename ==
               Lower(DictGet(driver, "OriginalFilename", <<>>))
             file_attrib_id ==
               IF original_filename # <<>>
               THEN DictGet(file_attribs, original_filename, Null)
               ELSE Null
             visited == VisitedOfSignatures(driver.Signatures)
             Returns(cert_hash) ==
               \E k \in DOMAIN signer_info :
                 /\ InList(Lower(cert_hash), signer_info[k].cert_roots)
                 /\ SignerApplies(signer_info[k], file_attrib_id)
         IN  \E i \in DOMAIN visited :
               /\ visited[i] = Null
               /\ \A j \in 1..(i - 1) : ~Returns(visited[j])

\* the condition of the two loops raises: a test raises and no test
\* before it in the `or` chain returned True
ClassifyRaises(driver, policy) ==
  \/ HashRaises(driver)
  \/ /\ ~has_blocked_hash(driver, policy.deny_hashes)
     /\ \/ VersionRaises(driver)
        \/ /\ ~has_blocked_version(driver, policy.deny_file_versions,
                                    policy.file_attribs)
           /\ SignerRaises(driver, policy.signer_info, policy.file_attribs)

\* "https://www.loldrivers.io/drivers/", kept as one token
LinkPrefix == <<"https://www.loldrivers.io/drivers/">>

NotAvailable == <<"N", "/", "A">>

Unknown == <<"U", "n", "k", "n", "o", "w", "n">>

\* a or b, for values that are None or a str
PyOr(a, b) == IF Truthy(a) THEN a ELSE b

\* driver_info of generate_json_results
DriverInfo(driver) ==
  LET parent_info ==
        DictGet(driver, "_parent_driver", EmptyDict)
      driver_id == DictGet(parent_info, "Id", <<>>)
      tags == DictGet(parent_info, "Tags", <<>>)
      filename == PyOr(DictGet(driver, "Filename", Null), Join(tags))
  IN  [filename |-> IF filename # <<>> THEN filename ELSE Unknown,
       driver_id |-> driver_id,
       driver_link |->
         IF Truthy(driver_id) THEN LinkPrefix \o driver_id ELSE NotAvailable,
       md5 |-> DictGet(driver, "MD5", Null),
       sha1 |-> DictGet(driver, "SHA1", Null),
       sha256 |-> DictGet(driver, "SHA256", Null),
       file_version |-> DictGet(driver, "FileVersion", Null),
       original_filename |-> DictGet(driver, "OriginalFilename", Null),
       parent_tags |-> tags]

\* AddBlocked with the counter left as it was
AddBlocked_NoCount(results, driver_info) ==
  [results EXCEPT !.blocked_drivers = Append(@, driver_info)]

\* the summary and lists after is_blocked was true for the driver
AddBlocked(results, driver_info) ==
  [results EXCEPT !.summary.blocked_count = @ + 1,
                  !.blocked_drivers = Append(@, driver_info)]

\* the summary and lists after is_blocked was false for the driver
AddAllowed(results, driver_info) ==
  [results EXCEPT !.summary.allowed_count = @ + 1,
                  !.allowed_drivers = Append(@, driver_info)]

(***************************************************************************)
(* scripts/compare_hvci.py                                                 *)
(***************************************************************************)
Prefix_sha256 == <<"s", "h", "a", "2", "5", "6", ":">>
Prefix_sha1 == <<"s", "h", "a", "1", ":">>
Prefix_md5 == <<"m", "d", "5", ":">>
Prefix_file == <<"f", "i", "l", "e", ":">>

\* the default 'unknown' of get_driver_signature
unknown == <<"u", "n", "k", "n", "o", "w", "n">>

\* a value that is None or a str, as an f-string formats it
Format(v) == IF v = Null THEN <<"N", "o", "n", "e">> ELSE v

\* get_driver_signature with the algorithm prefixes left out
get_driver_signature_NoPrefix(driver) ==
  IF Truthy(DictGet(driver, "sha256", Null)) THEN Lower(driver.sha256)
  ELSE IF Truthy(DictGet(driver, "sha1", Null)) THEN Lower(driver.sha1)
  ELSE IF Truthy(DictGet(driver, "md5", Null)) THEN Lower(driver.md5)
  ELSE Format(DictGet(driver, "filename", unknown)) \o <<"_">>
         \o Format(DictGet(driver, "driver_id", unknown))

get_driver_signature(driver) ==
  IF Truthy(DictGet(driver, "sha256", Null))
  THEN Prefix_sha256 \o Lower(driver.sha256)
  ELSE IF Truthy(DictGet(driver, "sha1", Null))
  THEN Prefix_sha1 \o Lower(driver.sha1)
  ELSE IF Truthy(DictGet(driver, "md5", Null))
  THEN Prefix_md5 \o Lower(driver.md5)
  ELSE Prefix_file \o Format(DictGet(driver, "filename", unknown)) \o <<"_">>
         \o Format(DictGet(driver, "driver_id", unknown))

\* create_driver_map, from the dict built so far
RECURSIVE FillDriverMap(_, _)
FillDriverMap(drivers, driver_map) ==
  IF drivers = <<>> THEN driver_map
  ELSE FillDriverMap(Tail(drivers),
         DictPut(driver_map, get_driver_signature(Head(drivers)), Head(drivers)))

create_driver_map(drivers) == FillDriverMap(drivers, EmptyDict)

\* AllDrivers with the blocked map left out
AllDrivers_AllowedOnly(allowed_map, blocked_map) == allowed_map

\* old_all_drivers and new_all_drivers: {**allowed_map, **blocked_map}
AllDrivers(allowed_map, blocked_map) == DictMerge(allowed_map, blocked_map)

\* removed_signatures, and added_signatures with the arguments exchanged
SignaturesOnlyIn(all_drivers, other_all_drivers) ==
  DOMAIN all_drivers \ DOMAIN other_all_drivers

\* common_signatures
CommonSignatures(old_all_drivers, new_all_drivers) ==
  DOMAIN old_all_drivers \cap DOMAIN new_all_drivers

\* the orders in which a for loop may visit the elements of a set
RECURSIVE IterationOrders(_)
IterationOrders(S) ==
  IF S = {} THEN {<<>>}
  ELSE UNION {{<<first>> \o rest : rest \in IterationOrders(S \ {first})} :
                first \in S}

\* the two lists a categorizing loop builds, visiting the signatures in order:
\* the records of all_drivers, in `allowed` if the signature is a key of
\* allowed_map and else in `blocked`
RECURSIVE Categorize(_, _, _)
Categorize(order, all_drivers, allowed_map) ==
  IF order = <<>> THEN [allowed |-> <<>>, blocked |-> <<>>]
  ELSE LET signature == Head(order)
           driver == all_drivers[signature]
           rest == Categorize(Tail(order), all_drivers, allowed_map)
       IN  IF signature \in DOMAIN allowed_map
           THEN [rest EXCEPT !.allowed = <<driver>> \o @]
           ELSE [rest EXCEPT !.blocked = <<driver>> \o @]

\* new_is_allowed taken as "not a key of the blocked map"
NewIsAllowed_NotBlocked(signature, allowed_map, blocked_map) ==
  signature \notin DOMAIN blocked_map

\* old_was_allowed
OldWasAllowed(signature, allowed_map, blocked_map) ==
  signature \in DOMAIN allowed_map

\* new_is_allowed
NewIsAllowed(signature, allowed_map, blocked_map) ==
  signature \in DOMAIN allowed_map

\* StatusChange carrying the record of the old snapshot
StatusChange_OldRecord(old_driver, new_driver, old_was_allowed, new_is_allowed) ==
  [driver |-> old_driver,
   old_status |-> IF old_was_allowed THEN "allowed" ELSE "blocked",
   new_status |-> IF new_is_allowed THEN "allowed" ELSE "blocked"]

\* the record appended to status_changes
StatusChange(old_driver, new_driver, old_was_allowed, new_is_allowed) ==
  [driver |-> new_driver,
   old_status |-> IF old_was_allowed THEN "allowed" ELSE "blocked",
   new_status |-> IF new_is_allowed THEN "allowed" ELSE "blocked"]

\* status_changes after the loop has visited the common signatures in order
RECURSIVE StatusChanges(_, _)
StatusChanges(order, maps) ==
  IF order = <<>> THEN <<>>
  ELSE LET signature == Head(order)
           old_driver == AllDrivers(maps.old_allowed, maps.old_blocked)[signature]
           new_driver == AllDrivers(maps.new_allowed, maps.new_blocked)[signature]
           old_was_allowed ==
             OldWasAllowed(signature, maps.old_allowed, maps.old_blocked)
           new_is_allowed ==
             NewIsAllowed(signature, maps.new_allowed, maps.new_blocked)
       IN  (IF old_was_allowed # new_is_allowed
            THEN <<StatusChange(old_driver, new_driver, old_was_allowed,
                                new_is_allowed)>>
            ELSE <<>>) \o StatusChanges(Tail(order), maps)

\* the four maps compare_drivers builds first
DriverMaps(old, new) ==
  [old_allowed |-> create_driver_map(old.allowed_drivers),
   old_blocked |-> create_driver_map(old.blocked_drivers),
   new_allowed |-> create_driver_map(new.allowed_drivers),
   new_blocked |-> create_driver_map(new.blocked_drivers)]

\* what compare_drivers returns when its loops visit removed_signatures,
\* added_signatures and common_signatures in the given orders
compare_drivers(old, new, removed_order, added_order, common_order) ==
  LET maps == DriverMaps(old, new)
      old_all_drivers == AllDrivers(maps.old_allowed, maps.old_blocked)
      new_all_drivers == AllDrivers(maps.new_allowed, maps.new_blocked)
      removed == Categorize(removed_order, old_all_drivers, maps.old_allowed)
      added == Categorize(added_order, new_all_drivers, maps.new_allowed)
      status_changes == StatusChanges(common_order, maps)
  IN  [removed_allowed |-> removed.allowed,
       removed_blocked |-> removed.blocked,
       added_allowed |-> added.allowed,
       added_blocked |-> added.blocked,
       status_changes |-> status_changes,
       summary |->
         [total_removed |-> Len(removed_order),
          total_added |-> Len(added_order),
          removed_allowed_count |-> Len(removed.allowed),
          removed_blocked_count |-> Len(removed.blocked),
          added_allowed_count |-> Len(added.allowed),
          added_blocked_count |-> Len(added.blocked),
          status_changes_count |-> Len(status_changes)]]

\* filename.split('_')
RECURSIVE SplitUnderscores(_, _)
SplitUnderscores(s, cur) ==
  IF s = <<>> THEN <<cur>>
  ELSE IF Head(s) = "_" THEN <<cur>> \o SplitUnderscores(Tail(s), <<>>)
  ELSE SplitUnderscores(Tail(s), cur \o <<Head(s)>>)

\* len(part) == 8 and part.isdigit()
IsDatePart(part) == Len(part) = 8 /\ \A i \in DOMAIN part : IsDigit(part[i])

\* DD-MM-YYYY of the first YYYYMMDD part of the file name, or today's date
extract_date_from_filename(filename, today) ==
  LET parts == SplitUnderscores(filename, <<>>)
  IN  IF \E i \in DOMAIN parts : IsDatePart(parts[i])
      THEN LET part == parts[CHOOSE i \in DOMAIN parts :
                             /\ IsDatePart(parts[i])
                             /\ \A j \in 1..(i - 1) : ~IsDatePart(parts[j])]
           IN  SubSeq(part, 7, 8) \o <<"-">> \o SubSeq(part, 5, 6) \o <<"-">>
                 \o SubSeq(part, 1, 4)
      ELSE today

\* the hash written for a record: nested dict.get defaults
ChangelogHash(driver) ==
  DictGet(driver, "sha256",
          DictGet(driver, "sha1", DictGet(driver, "md5", NotAvailable)))

\* the compact record of a removed or added driver
FormatDriver(driver) ==
  [name |-> DictGet(driver, "filename", Unknown),
   hash |-> ChangelogHash(driver),
   driver_id |-> DictGet(driver, "driver_id", NotAvailable)]

\* the compact record of a status change
FormatStatusChange(change) ==
  [name |-> DictGet(change.driver, "filename", Unknown),
   hash |-> ChangelogHash(change.driver),
   driver_id |-> DictGet(change.driver, "driver_id", NotAvailable),
   old_status |-> change.old_status,
   new_status |-> change.new_status]

format_changes_for_changelog(cmp) ==
  LET removed == cmp.removed_allowed \o cmp.removed_blocked
      added == cmp.added_allowed \o cmp.added_blocked
  IN  [removed |-> [i \in DOMAIN removed |-> FormatDriver(removed[i])],
       added |-> [i \in DOMAIN added |-> FormatDriver(added[i])],
       status_changes |->
         [i \in DOMAIN cmp.status_changes |->
            FormatStatusChange(cmp.status_changes[i])]]

\* load_existing_changelog always returning the empty list
load_existing_changelog_Fresh(file) == <<>>

\* the list load_existing_changelog returns: the stored list, and [] for a
\* missing file, malformed JSON and JSON that is not a list
load_existing_changelog(file) ==
  IF file.kind = "list" THEN file.entries ELSE <<>>

\* the changelog file after save_changelog(comparison, old_file, new_file)
save_changelog(cmp, new_file_name, file, today) ==
  LET date == extract_date_from_filename(new_file_name, today)
      changes == format_changes_for_changelog(cmp)
      total_changes ==
        Len(changes.removed) + Len(changes.added) + Len(changes.status_changes)
  IN  IF total_changes = 0 THEN file
      ELSE [kind |-> "list",
            entries |-> Append(load_existing_changelog(file),
                               [date |-> date, data |-> changes])]

\* the characters of a date in the order of their code points
DateChars == <<"-", "0", "1", "2", "3", "4", "5", "6", "7", "8", "9">>

\* ord(c) of a character of a date, up to a shift
Ord(c) == CHOOSE i \in DOMAIN DateChars : DateChars[i] = c

\* a < b for two str, as Python compares them
RECURSIVE StrLess(_, _)
StrLess(a, b) ==
  IF b = <<>> THEN FALSE
  ELSE IF a = <<>> THEN TRUE
  ELSE IF Head(a) # Head(b) THEN Ord(Head(a)) < Ord(Head(b))
  ELSE StrLess(Tail(a), Tail(b))

\* the sorted list with one more entry, placed behind the entries whose key
\* is not smaller: list.sort is stable, also with reverse=True
InsertByDate(sorted, entry) ==
  LET ahead == {i \in DOMAIN sorted : ~StrLess(sorted[i].date, entry.date)}
      k == IF ahead = {} THEN 0
           ELSE CHOOSE i \in ahead : \A j \in ahead : j <= i
  IN  SubSeq(sorted, 1, k) \o <<entry>> \o SubSeq(sorted, k + 1, Len(sorted))

\* changelog.sort(key=lambda x: x['date'], reverse=True)
RECURSIVE SortByDateReverse(_, _)
SortByDateReverse(entries, sorted) ==
  IF entries = <<>> THEN sorted
  ELSE SortByDateReverse(Tail(entries), InsertByDate(sorted, Head(entries)))

\* printing the entry raises TypeError: driver['hash'][:16] of a removed or
\* added record whose hash is None
PrintRaises(entry) ==
  \/ \E i \in DOMAIN entry.data.removed : entry.data.removed[i].hash = Null
  \/ \E i \in DOMAIN entry.data.added : entry.data.added[i].hash = Null

\* the dates of the "ChangeLog <date>:" lines printed for the entries in
\* this order: the loop ends at the first entry whose printing raises
RECURSIVE PrintedDates(_)
PrintedDates(entries) ==
  IF entries = <<>> THEN <<>>
  ELSE <<Head(entries).date>>
         \o (IF PrintRaises(Head(entries)) THEN <<>>
             ELSE PrintedDates(Tail(entries)))

\* the dates display_changelog_history prints, in order: none for a file
\* that is missing, is not JSON, holds no list or holds the empty list
display_changelog_history(file) ==
  IF file.kind = "list"
  THEN PrintedDates(SortByDateReverse(file.entries, <<>>))
  ELSE <<>>

\* the keys load_json_file requires
required_keys == {"summary", "allowed_drivers", "blocked_drivers"}

\* load_json_file ends the run with sys.exit(1): the file is missing, is not
\* JSON, or lacks a required key
LoadExits(file) ==
  file.kind # "json" \/ ~(required_keys \subseteq DOMAIN file.json)

(***************************************************************************)
(* Inputs of byovd.py main: the feed, the policy document and the --json   *)
(* flag.  The strings are short stand-ins: two-letter hashes, file names   *)
(* and rule ids.                                                           *)
(***************************************************************************)
h_ab == <<"a", "b">>
h_AB == <<"A", "B">>
h_aB == <<"a", "B">>
h_cd == <<"c", "d">>
h_ef == <<"e", "f">>

f_dx == <<"d", "x">>
f_DX == <<"D", "X">>
f_ex == <<"e", "x">>

r_1 == <<"R", "1">>
r_2 == <<"R", "2">>

v_9_0 == <<"9", ".", "0">>
v_10_0 == <<"1", "0", ".", "0">>
v_1_2_3 == <<"1", ".", "2", ".", "3">>
v_1_2_3_0 == <<"1", ".", "2", ".", "3", ".", "0">>
v_1_3_0 == <<"1", ".", "3", ".", "0">>
v_9c0 == <<"9", ",", "0">>
v_9_0_text == <<"9", ".", "0", " ", "x">>
v_9c_0 == <<"9", ",", " ", "0">>
v_x == <<"x">>
v_blank == <<" ">>

\* samples that differ in the six hash fields only
HashSamples ==
  {[MD5 |-> h_ab],
   [SHA1 |-> h_AB],
   [SHA256 |-> h_cd],
   [SHA256 |-> h_AB, SHA1 |-> h_cd],
   [Authentihash |-> [MD5 |-> h_AB]],
   [Authentihash |-> [SHA1 |-> h_ab]],
   [MD5 |-> h_cd, Authentihash |-> [SHA256 |-> h_aB]],
   [MD5 |-> <<>>],
   [Authentihash |-> EmptyDict],
   EmptyDict}

\* samples that differ in OriginalFilename and FileVersion only
VersionSamples ==
  {[OriginalFilename |-> f_dx, FileVersion |-> v] :
     v \in {v_9_0, v_10_0, v_1_2_3_0, v_1_3_0, v_9c0, v_9_0_text, v_9c_0, v_x,
            v_blank}}
    \cup {[OriginalFilename |-> f_DX, FileVersion |-> v_10_0],
          [OriginalFilename |-> f_ex, FileVersion |-> v_9_0],
          [FileVersion |-> v_9_0]}

\* a Signatures list with one certificate whose TBS is tbs
OneCert(tbs) == <<[Certificates |-> <<[TBS |-> tbs]>>]>>

\* samples that differ in Signatures and OriginalFilename only
SignerSamples ==
  {[Signatures |-> OneCert([MD5 |-> h_ab])],
   [Signatures |-> OneCert([SHA384 |-> h_AB])],
   [Signatures |-> OneCert([SHA512 |-> h_ab])],
   [Signatures |-> <<>>],
   [Signatures |->
      <<EmptyDict,
        [Certificates |-> <<EmptyDict, [TBS |-> [SHA1 |-> h_cd, SHA256 |-> h_aB]]>>]>>],
   [Signatures |-> OneCert([SHA1 |-> h_ab]), OriginalFilename |-> f_dx],
   [Signatures |-> OneCert([SHA1 |-> h_ab]), OriginalFilename |-> f_DX],
   [Signatures |-> OneCert([SHA1 |-> h_ab]), OriginalFilename |-> f_ex],
   [Signatures |-> OneCert([SHA1 |-> h_ab]), OriginalFilename |-> <<>>],
   [Signatures |-> OneCert([SHA1 |-> h_cd]), OriginalFilename |-> f_dx],
   [OriginalFilename |-> f_dx]}

\* samples for which several of the three tests apply at once, or none
MixedSamples ==
  {[MD5 |-> h_ab, Filename |-> f_ex],
   [SHA256 |-> h_cd, OriginalFilename |-> f_dx, FileVersion |-> v_9_0],
   [SHA1 |-> h_cd, Signatures |-> OneCert([SHA256 |-> h_AB])],
   [MD5 |-> h_AB, OriginalFilename |-> f_DX, FileVersion |-> v_10_0,
    Signatures |-> OneCert([MD5 |-> h_ab])],
   [SHA256 |-> h_cd, OriginalFilename |-> f_ex, FileVersion |-> v_9_0,
    Filename |-> <<>>],
   [OriginalFilename |-> <<>>, FileVersion |-> v_9_0],
   [OriginalFilename |-> f_dx],
   [OriginalFilename |-> f_dx, FileVersion |-> <<>>]}

\* a feed entry with one sample
EntryOf(sample) ==
  [Id |-> <<"1">>, Tags |-> <<f_dx>>, KnownVulnerableSamples |-> <<sample>>]

\* feed entries without samples, with several, and without Id and Tags
OddEntries ==
  {[Id |-> <<"2">>, Tags |-> <<>>],
   [KnownVulnerableSamples |-> <<[MD5 |-> h_ab], [MD5 |-> h_cd]>>],
   [Id |-> <<>>, Tags |-> <<f_dx, f_ex>>,
    KnownVulnerableSamples |-> <<[SHA1 |-> h_cd]>>]}

\* a policy document with the given Deny, FileAttrib and Signer elements
PolicyDoc(deny, attribs, signers) ==
  [FileRules |-> [Deny |-> deny, FileAttrib |-> attribs], Signers |-> signers]

Deny_ab == [Hash |-> h_ab]
Deny_AB == [Hash |-> h_AB]
Deny_aB == [Hash |-> h_aB]
Deny_ef == [Hash |-> h_ef]

\* a Deny element with FileName and MaximumFileVersion
DenyVersion(f, v) == [FileName |-> f, MaximumFileVersion |-> v]

HashPolicies ==
  {PolicyDoc(<<Deny_ab>>, <<>>, <<>>),
   PolicyDoc(<<Deny_AB>>, <<>>, <<>>),
   PolicyDoc(<<Deny_ef, Deny_aB>>, <<>>, <<>>),
   PolicyDoc(<<[Hash |-> <<>>]>>, <<>>, <<>>),
   EmptyDict}

VersionPolicies ==
  {PolicyDoc(<<DenyVersion(f_dx, v_10_0)>>, <<>>, <<>>),
   PolicyDoc(<<DenyVersion(f_DX, v_9_0)>>, <<>>, <<>>),
   PolicyDoc(<<DenyVersion(f_dx, v_1_2_3)>>, <<>>, <<>>),
   PolicyDoc(<<DenyVersion(f_dx, v_10_0), DenyVersion(f_dx, v_9_0)>>, <<>>, <<>>),
   PolicyDoc(<<[FileName |-> f_dx], [MaximumFileVersion |-> v_9_0],
               DenyVersion(f_ex, v_9_0), DenyVersion(f_dx, v_x)>>, <<>>, <<>>)}

\* a Signer element
Signer(roots, refs) ==
  [CertRoot |-> [i \in DOMAIN roots |-> [Value |-> roots[i]]],
   FileAttribRef |-> [i \in DOMAIN refs |-> [RuleID |-> refs[i]]]]

\* a FileAttrib element
FileAttrib(f, id) == [FileName |-> f, ID |-> id]

SignerPolicies ==
  {[Signers |-> <<Signer(<<h_ab>>, <<>>)>>],
   PolicyDoc(<<>>, <<FileAttrib(f_dx, r_1)>>, <<Signer(<<h_ab>>, <<r_1>>)>>),
   PolicyDoc(<<>>, <<FileAttrib(f_DX, r_1), FileAttrib(f_ex, r_2)>>,
             <<Signer(<<h_ef, h_AB>>, <<r_2, r_1>>)>>),
   PolicyDoc(<<>>, <<FileAttrib(f_dx, r_2)>>,
             <<Signer(<<h_ab>>, <<r_1>>), Signer(<<h_cd>>, <<>>)>>),
   PolicyDoc(<<>>,
             <<FileAttrib(f_dx, <<>>), [ID |-> r_1], FileAttrib(f_dx, r_1),
               FileAttrib(f_dx, r_2)>>,
             <<Signer(<<>>, <<>>),
               [CertRoot |-> <<EmptyDict, [Value |-> h_ab]>>,
                FileAttribRef |-> <<EmptyDict, [RuleID |-> r_1]>>]>>)}

MixedPolicies ==
  {PolicyDoc(<<Deny_ab, DenyVersion(f_dx, v_9_0)>>, <<FileAttrib(f_dx, r_1)>>,
             <<Signer(<<h_ab>>, <<r_1>>)>>),
   PolicyDoc(<<[Hash |-> h_AB, FileName |-> f_dx,
                MaximumFileVersion |-> v_9_0]>>, <<>>,
             <<Signer(<<h_ab>>, <<>>)>>)}

\* the inputs are drawn from one family at a time
InputFamilies ==
  {[entries |-> {EntryOf(s) : s \in HashSamples}, policies |-> HashPolicies],
   [entries |-> {EntryOf(s) : s \in VersionSamples},
    policies |-> VersionPolicies],
   [entries |-> {EntryOf(s) : s \in SignerSamples},
    policies |-> SignerPolicies],
   [entries |-> {EntryOf(s) : s \in MixedSamples} \cup OddEntries,
    policies |-> MixedPolicies]}

(***************************************************************************)
(* State.                                                                  *)
(***************************************************************************)
VARIABLES
  pc,                 \* where the running script stands
  data,               \* byovd: the JSON document of the feed
  xml_doc,            \* byovd: the parsed policy document
  json_output,        \* byovd: the --json flag
  loldrivers,         \* byovd: the samples load_loldrivers returned
  deny_hashes,        \* byovd: load_policy's set of denied hashes
  deny_file_versions, \* byovd: load_policy's file name -> ceiling
  signer_info,        \* byovd: load_policy's list of signers
  file_attribs,       \* byovd: load_policy's file name -> rule id
  idx,                \* byovd: drivers the running loop has processed
  results,            \* byovd: results of generate_json_results
  blocked_count,      \* byovd: main's console counter
  allowed_count,      \* byovd: main's console counter
  printed,            \* byovd: the drivers handed to print_driver
  old_data,           \* compare_hvci: the older saved ResultSet
  new_data,           \* compare_hvci: the newer saved ResultSet
  old_allowed_map,    \* compare_hvci: signature -> record, old allowed
  old_blocked_map,    \* compare_hvci: signature -> record, old blocked
  new_allowed_map,    \* compare_hvci: signature -> record, new allowed
  new_blocked_map,    \* compare_hvci: signature -> record, new blocked
  comparison,         \* compare_hvci: what compare_drivers returned
  old_file,           \* compare_hvci: the older result file on disk
  new_file,           \* compare_hvci: the newer result file, with its name
  changelog_file,     \* the changelog file on disk
  shown,              \* compare_hvci: the dates display_changelog_history printed
  latest,             \* loldrivers_changelog: the feed fetched by the run
  previous_file       \* loldrivers_changelog: loldrivers_previous.json on disk

byovd_vars ==
  <<data, xml_doc, json_output, loldrivers, deny_hashes, deny_file_versions,
    signer_info, file_attribs, idx, results, blocked_count, allowed_count,
    printed>>

compare_vars ==
  <<old_data, new_data, old_allowed_map, old_blocked_map, new_allowed_map,
    new_blocked_map, comparison>>

changelog_vars ==
  <<old_file, new_file, changelog_file, shown, latest, previous_file>>

vars == <<pc, byovd_vars, compare_vars, changelog_vars>>

\* the four tables of the running script
Policy ==
  [deny_hashes |-> deny_hashes, deny_file_versions |-> deny_file_versions,
   signer_info |-> signer_info, file_attribs |-> file_attribs]

\* results as generate_json_results creates it
InitialResults(drivers) ==
  [summary |-> [total_drivers |-> Len(drivers), blocked_count |-> 0,
                allowed_count |-> 0],
   allowed_drivers |-> <<>>,
   blocked_drivers |-> <<>>]

NoResults == InitialResults(<<>>)

\* a file that does not exist
AbsentFile == [kind |-> "absent", json |-> EmptyDict]

\* a changelog file or a baseline file that does not exist
AbsentList == [kind |-> "absent", entries |-> <<>>]

\* no file is on disk and nothing was fetched or displayed
ChangelogIdle ==
  /\ old_file = AbsentFile
  /\ new_file = [name |-> <<>>, kind |-> "absent", json |-> EmptyDict]
  /\ changelog_file = AbsentList
  /\ shown = <<>>
  /\ latest = <<>>
  /\ previous_file = AbsentList

\* no ResultSet has been compared
CompareIdle ==
  /\ old_data = NoResults
  /\ new_data = NoResults
  /\ old_allowed_map = EmptyDict
  /\ old_blocked_map = EmptyDict
  /\ new_allowed_map = EmptyDict
  /\ new_blocked_map = EmptyDict
  /\ comparison = EmptyDict

Init ==
  /\ pc = "main"
  /\ \E family \in InputFamilies :
       /\ \E n \in 0..MaxDrivers : data \in [1..n -> family.entries]
       /\ xml_doc \in family.policies
  /\ json_output \in BOOLEAN
  /\ CompareIdle
  /\ ChangelogIdle
  /\ loldrivers = <<>>
  /\ deny_hashes = {}
  /\ deny_file_versions = EmptyDict
  /\ signer_info = <<>>
  /\ file_attribs = EmptyDict
  /\ idx = 0
  /\ results = NoResults
  /\ blocked_count = 0
  /\ allowed_count = 0
  /\ printed = <<>>

\* main up to its branch on json_output: the feed and the policy are loaded
MainLoad ==
  /\ UNCHANGED <<compare_vars, changelog_vars>>
  /\ pc = "main"
  /\ loldrivers' = load_loldrivers(data)
  /\ LET policy == load_policy(xml_doc)
     IN  /\ deny_hashes' = policy.deny_hashes
         /\ deny_file_versions' = policy.deny_file_versions
         /\ signer_info' = policy.signer_info
         /\ file_attribs' = policy.file_attribs
  /\ idx' = 0
  /\ IF json_output
     THEN /\ results' = InitialResults(loldrivers')
          /\ pc' = "generate_json_results"
     ELSE /\ results' = results
          /\ pc' = "console"
  /\ UNCHANGED <<data, xml_doc, json_output, blocked_count, allowed_count,
                 printed>>

\* one iteration of the loop of generate_json_results
JsonStep ==
  /\ UNCHANGED <<compare_vars, changelog_vars>>
  /\ pc = "generate_json_results"
  /\ idx < Len(loldrivers)
  /\ ~ClassifyRaises(loldrivers[idx + 1], Policy)
  /\ LET driver == loldrivers[idx + 1]
     IN  results' = IF is_blocked(driver, Policy)
                    THEN AddBlocked(results, DriverInfo(driver))
                    ELSE AddAllowed(results, DriverInfo(driver))
  /\ idx' = idx + 1
  /\ UNCHANGED <<pc, data, xml_doc, json_output, loldrivers, deny_hashes,
                 deny_file_versions, signer_info, file_attribs, blocked_count,
                 allowed_count, printed>>

\* generate_json_results returns; main saves and prints the summary
JsonReturn ==
  /\ UNCHANGED <<compare_vars, changelog_vars>>
  /\ pc = "generate_json_results"
  /\ idx = Len(loldrivers)
  /\ pc' = "done"
  /\ UNCHANGED byovd_vars

\* one iteration of the console loop of main
ConsoleStep ==
  /\ UNCHANGED <<compare_vars, changelog_vars>>
  /\ pc = "console"
  /\ idx < Len(loldrivers)
  /\ ~ClassifyRaises(loldrivers[idx + 1], Policy)
  /\ LET driver == loldrivers[idx + 1]
     IN  IF is_blocked(driver, Policy)
         THEN /\ blocked_count' = blocked_count + 1
              /\ UNCHANGED <<allowed_count, printed>>
         ELSE /\ allowed_count' = allowed_count + 1
              /\ printed' = Append(printed, driver)
              /\ UNCHANGED blocked_count
  /\ idx' = idx + 1
  /\ UNCHANGED <<pc, data, xml_doc, json_output, loldrivers, deny_hashes,
                 deny_file_versions, signer_info, file_attribs, results>>

\* the console loop ends; main prints the two counters
ConsoleReturn ==
  /\ UNCHANGED <<compare_vars, changelog_vars>>
  /\ pc = "console"
  /\ idx = Len(loldrivers)
  /\ pc' = "done"
  /\ UNCHANGED byovd_vars

Next ==
  \/ MainLoad
  \/ JsonStep
  \/ JsonReturn
  \/ ConsoleStep
  \/ ConsoleReturn

Spec == Init /\ [][Next]_vars

(***************************************************************************)
(* byovd.py main on a feed in which fields of a sample are absent, None or *)
(* empty, and on versions that cannot be parsed.                           *)
(***************************************************************************)
\* samples whose string-valued fields are absent, None or empty; the
\* Authentihash, Signatures, Certificates and TBS of a sample are absent or
\* well-formed
NullSamples ==
  {[MD5 |-> Null],
   [SHA256 |-> h_ab, OriginalFilename |-> Null],
   [OriginalFilename |-> f_dx, FileVersion |-> Null],
   [OriginalFilename |-> f_dx, FileVersion |-> v_x],
   [OriginalFilename |-> f_dx, FileVersion |-> v_9_0],
   [Authentihash |-> [SHA1 |-> Null]],
   [Signatures |-> OneCert([MD5 |-> h_cd, SHA1 |-> Null])],
   [Signatures |-> <<[Other |-> <<>>], [Certificates |-> <<[Other |-> <<>>]>>]>>],
   [MD5 |-> <<>>, OriginalFilename |-> <<>>, FileVersion |-> <<>>,
    Signatures |-> <<>>],
   [Filename |-> f_ex]}

\* policies with a denied hash, a ceiling, a ceiling that is no version and
\* signers, and a policy without rules
NullPolicies ==
  {PolicyDoc(<<Deny_ab, DenyVersion(f_dx, v_10_0)>>, <<>>,
             <<Signer(<<h_cd>>, <<>>)>>),
   PolicyDoc(<<DenyVersion(f_dx, v_x)>>, <<>>, <<Signer(<<h_ef>>, <<>>)>>),
   PolicyDoc(<<>>, <<>>, <<>>)}

InitNulls ==
  /\ pc = "main"
  /\ \E n \in 0..MaxDrivers : data \in [1..n -> {EntryOf(s) : s \in NullSamples}]
  /\ xml_doc \in NullPolicies
  /\ json_output \in BOOLEAN
  /\ CompareIdle
  /\ ChangelogIdle
  /\ loldrivers = <<>>
  /\ deny_hashes = {}
  /\ deny_file_versions = EmptyDict
  /\ signer_info = <<>>
  /\ file_attribs = EmptyDict
  /\ idx = 0
  /\ results = NoResults
  /\ blocked_count = 0
  /\ allowed_count = 0
  /\ printed = <<>>

\* the condition of the loop raises and the exception ends main
ClassifyRaise ==
  /\ pc \in {"generate_json_results", "console"}
  /\ idx < Len(loldrivers)
  /\ ClassifyRaises(loldrivers[idx + 1], Policy)
  /\ pc' = "raised"
  /\ UNCHANGED <<byovd_vars, compare_vars, changelog_vars>>

NextNulls ==
  \/ Next
  \/ ClassifyRaise

SpecNulls == InitNulls /\ [][NextNulls]_vars

(***************************************************************************)
(* compare_hvci.py main on two saved result files.                         *)
(***************************************************************************)

\* the records byovd.py writes for these samples
SavedRecords ==
  {DriverInfo(EntrySamples(EntryOf(sample))[1]) :
     sample \in {[SHA256 |-> h_ab],
                 [SHA256 |-> h_AB, SHA1 |-> h_ab, Filename |-> f_ex],
                 [SHA256 |-> <<>>, SHA1 |-> h_ab],
                 [MD5 |-> h_ab],
                 [Filename |-> f_ex]}}

\* the ResultSet with these two lists
ResultSetOf(allowed, blocked) ==
  [summary |-> [total_drivers |-> Len(allowed) + Len(blocked),
                blocked_count |-> Len(blocked),
                allowed_count |-> Len(allowed)],
   allowed_drivers |-> allowed,
   blocked_drivers |-> blocked]

\* the old and new files main is run on: two files of at most MaxRecords
\* records together, or one file of at most MaxRecords records given twice
InitCompare ==
  /\ pc = "compare"
  /\ \E n \in 0..MaxRecords :
       \E all \in [1..n -> SavedRecords], c1, c2, c3 \in 0..n :
         /\ c1 <= c2
         /\ c2 <= c3
         /\ \/ /\ old_data = ResultSetOf(SubSeq(all, 1, c1), SubSeq(all, c1 + 1, c2))
               /\ new_data = ResultSetOf(SubSeq(all, c2 + 1, c3),
                                         SubSeq(all, c3 + 1, Len(all)))
            \/ /\ c2 = c3
               /\ c3 = Len(all)
               /\ old_data = ResultSetOf(SubSeq(all, 1, c1), SubSeq(all, c1 + 1, c2))
               /\ new_data = old_data
  /\ old_allowed_map = EmptyDict
  /\ old_blocked_map = EmptyDict
  /\ new_allowed_map = EmptyDict
  /\ new_blocked_map = EmptyDict
  /\ comparison = EmptyDict
  /\ ChangelogIdle
  /\ data = <<>>
  /\ xml_doc = EmptyDict
  /\ json_output = TRUE
  /\ loldrivers = <<>>
  /\ deny_hashes = {}
  /\ deny_file_versions = EmptyDict
  /\ signer_info = <<>>
  /\ file_attribs = EmptyDict
  /\ idx = 0
  /\ results = NoResults
  /\ blocked_count = 0
  /\ allowed_count = 0
  /\ printed = <<>>

\* main calls compare_drivers(old_data, new_data)
CompareDrivers ==
  /\ pc = "compare"
  /\ LET maps == DriverMaps(old_data, new_data)
         old_all_drivers == AllDrivers(maps.old_allowed, maps.old_blocked)
         new_all_drivers == AllDrivers(maps.new_allowed, maps.new_blocked)
     IN  /\ old_allowed_map' = maps.old_allowed
         /\ old_blocked_map' = maps.old_blocked
         /\ new_allowed_map' = maps.new_allowed
         /\ new_blocked_map' = maps.new_blocked
         /\ \E removed_order \in
                 IterationOrders(SignaturesOnlyIn(old_all_drivers, new_all_drivers)),
               added_order \in
                 IterationOrders(SignaturesOnlyIn(new_all_drivers, old_all_drivers)),
               common_order \in
                 IterationOrders(CommonSignatures(old_all_drivers, new_all_drivers)) :
              comparison' = compare_drivers(old_data, new_data, removed_order,
                                            added_order, common_order)
  /\ pc' = "compared"
  /\ UNCHANGED <<old_data, new_data, byovd_vars, changelog_vars>>

NextCompare == CompareDrivers

SpecCompare == InitCompare /\ [][NextCompare]_vars

(***************************************************************************)
(* compare_hvci.py main run again and again on result files and on one     *)
(* changelog file.                                                         *)
(***************************************************************************)
\* most entries of the changelog file before a further run is started
MaxEntries == 2

\* byovd.py is not running
ByovdIdle ==
  /\ data = <<>>
  /\ xml_doc = EmptyDict
  /\ json_output = TRUE
  /\ loldrivers = <<>>
  /\ deny_hashes = {}
  /\ deny_file_versions = EmptyDict
  /\ signer_info = <<>>
  /\ file_attribs = EmptyDict
  /\ idx = 0
  /\ results = NoResults
  /\ blocked_count = 0
  /\ allowed_count = 0
  /\ printed = <<>>

\* res_20250201_0.json
name_0201 ==
  <<"r", "e", "s", "_", "2", "0", "2", "5", "0", "2", "0", "1", "_", "0",
    ".", "j", "s", "o", "n">>
\* res_20250102_0.json
name_0102 ==
  <<"r", "e", "s", "_", "2", "0", "2", "5", "0", "1", "0", "2", "_", "0",
    ".", "j", "s", "o", "n">>
\* new.json
name_undated == <<"n", "e", "w", ".", "j", "s", "o", "n">>

FileNames == {name_0201, name_0102, name_undated}

\* 02-01-2025 and 31-12-2024
date_0102 == <<"0", "2", "-", "0", "1", "-", "2", "0", "2", "5">>
date_1231 == <<"3", "1", "-", "1", "2", "-", "2", "0", "2", "4">>

\* the dates datetime.now().strftime("%d-%m-%Y") gives during the runs
Todays == {date_0102}

\* the record byovd.py writes for a sample that has a SHA1 and no other hash
Sha1Record == DriverInfo(EntrySamples(EntryOf([SHA1 |-> h_ab]))[1])

\* a result file holding this JSON document
JsonFile(doc) == [kind |-> "json", json |-> doc]

\* a file that is not JSON
MalformedFile == [kind |-> "malformed", json |-> EmptyDict]

\* a JSON file without the two driver lists
WrongStructureFile == JsonFile([summary |-> NoResults.summary])

EmptyResults == JsonFile(ResultSetOf(<<>>, <<>>))

ValidResults ==
  {EmptyResults,
   JsonFile(ResultSetOf(<<Sha1Record>>, <<>>)),
   JsonFile(ResultSetOf(<<>>, <<Sha1Record>>))}

BrokenResults == {AbsentFile, MalformedFile, WrongStructureFile}

\* the old and the new file of a run
RunFiles ==
  (ValidResults \X ValidResults)
    \cup (BrokenResults \X {EmptyResults})
    \cup ({EmptyResults} \X BrokenResults)

\* the file under its name on the command line
Named(file, name) == [name |-> name, kind |-> file.kind, json |-> file.json]

\* an entry as loldrivers_changelog.py appends it
PriorEntry ==
  [date |-> date_1231,
   data |-> [added |-> <<[name |-> f_ex, hash |-> h_cd, driver_id |-> r_1,
                          source |-> "loldrivers"]>>,
             removed |-> <<>>,
             status_changes |-> <<>>]]

\* what the changelog file holds before the first run: nothing, text that is
\* not JSON, a JSON object, or a list of entries
StoredChangelogs ==
  {AbsentList,
   [kind |-> "malformed", entries |-> <<>>],
   [kind |-> "object", entries |-> <<>>],
   [kind |-> "list", entries |-> <<>>],
   [kind |-> "list", entries |-> <<PriorEntry>>]}

InitChangelog ==
  /\ pc = "compare_main"
  /\ \E run \in RunFiles, name \in FileNames :
       /\ old_file = run[1]
       /\ new_file = Named(run[2], name)
  /\ changelog_file \in StoredChangelogs
  /\ shown = <<>>
  /\ latest = <<>>
  /\ previous_file = AbsentList
  /\ CompareIdle
  /\ ByovdIdle

\* main loads the two result files; load_json_file ends the run on a file
\* it cannot use
LoadResults ==
  /\ pc = "compare_main"
  /\ IF LoadExits(old_file) \/ LoadExits(new_file)
     THEN /\ pc' = "exit"
          /\ UNCHANGED <<old_data, new_data>>
     ELSE /\ pc' = "compare"
          /\ old_data' = old_file.json
          /\ new_data' = new_file.json
  /\ UNCHANGED <<old_allowed_map, old_blocked_map, new_allowed_map,
                 new_blocked_map, comparison, byovd_vars, changelog_vars>>

\* main calls save_changelog(comparison, old_file, new_file, output)
SaveChangelog ==
  /\ pc = "compared"
  /\ \E today \in Todays :
       changelog_file' =
         save_changelog(comparison, new_file.name, changelog_file, today)
  /\ pc' = "saved"
  /\ UNCHANGED <<byovd_vars, compare_vars, old_file, new_file, shown, latest,
                 previous_file>>

\* the script is started again on two result files
NextRun ==
  /\ pc = "saved"
  /\ Len(load_existing_changelog(changelog_file)) <= MaxEntries
  /\ \E run \in RunFiles, name \in FileNames :
       /\ old_file' = run[1]
       /\ new_file' = Named(run[2], name)
  /\ old_data' = NoResults
  /\ new_data' = NoResults
  /\ old_allowed_map' = EmptyDict
  /\ old_blocked_map' = EmptyDict
  /\ new_allowed_map' = EmptyDict
  /\ new_blocked_map' = EmptyDict
  /\ comparison' = EmptyDict
  /\ pc' = "compare_main"
  /\ UNCHANGED <<byovd_vars, changelog_file, shown, latest, previous_file>>

\* main with --show-history: display_changelog_history and return
DisplayHistory ==
  /\ pc = "compare_main"
  /\ shown' = display_changelog_history(changelog_file)
  /\ pc' = "shown"
  /\ UNCHANGED <<byovd_vars, compare_vars, old_file, new_file, changelog_file,
                 latest, previous_file>>

NextChangelog ==
  \/ DisplayHistory
  \/ LoadResults
  \/ CompareDrivers
  \/ SaveChangelog
  \/ NextRun

SpecChangelog == InitChangelog /\ [][NextChangelog]_vars

(***************************************************************************)
(* scripts/loldrivers_changelog.py                                         *)
(***************************************************************************)
\* the hash keys get_driver_key and main try, in order
HashKeys == <<"SHA256", "sha256", "SHA1", "sha1", "MD5", "md5">>

\* the first truthy driver[h] for h in keys, or None
RECURSIVE FirstHash(_, _)
FirstHash(driver, keys) ==
  IF keys = <<>> THEN Null
  ELSE IF Head(keys) \in DOMAIN driver /\ Truthy(driver[Head(keys)])
  THEN driver[Head(keys)]
  ELSE FirstHash(driver, Tail(keys))

get_driver_key(driver) ==
  IF "Id" \in DOMAIN driver THEN driver.Id ELSE FirstHash(driver, HashKeys)

\* driver.get(k1) or driver.get(k2) or ... over the keys in order
RECURSIVE OrChain(_, _)
OrChain(driver, keys) ==
  IF Len(keys) = 1 THEN DictGet(driver, Head(keys), Null)
  ELSE PyOr(DictGet(driver, Head(keys), Null), OrChain(driver, Tail(keys)))

\* prev_keys: the truthy keys of the previous feed
PrevKeys(previous) ==
  {get_driver_key(previous[i]) : i \in DOMAIN previous} \ {Null, <<>>}

\* new_drivers: the entries of latest whose key is not in prev_keys, in order
RECURSIVE NewDrivers(_, _)
NewDrivers(feed, prev_keys) ==
  IF feed = <<>> THEN <<>>
  ELSE (IF get_driver_key(Head(feed)) \notin prev_keys
        THEN <<Head(feed)>> ELSE <<>>) \o NewDrivers(Tail(feed), prev_keys)

\* the record main appends to entry["data"]["added"] for a new driver
AddedRecord(driver) ==
  LET name ==
        IF "Tags" \in DOMAIN driver /\ driver.Tags # <<>> THEN driver.Tags[1]
        ELSE IF "Filename" \in DOMAIN driver /\ Truthy(driver.Filename)
        THEN driver.Filename
        ELSE get_driver_key(driver)
      own == OrChain(driver, HashKeys)
      hashval ==
        IF ~Truthy(own) /\ "KnownVulnerableSamples" \in DOMAIN driver
             /\ driver.KnownVulnerableSamples # <<>>
        THEN OrChain(driver.KnownVulnerableSamples[1], HashKeys)
        ELSE own
  IN  [name |-> name, hash |-> hashval,
       driver_id |-> DictGet(driver, "Id", Null), source |-> "loldrivers"]

\* the baseline file after save_json(PREVIOUS_PATH, latest)
SavedFeed(feed) == [kind |-> "list", entries |-> feed]

\* what one run of main leaves: how it ended and the two files
loldrivers_main(feed, previous, changelog, today) ==
  IF previous.kind = "malformed"
  THEN [pc |-> "raised", previous_file |-> previous, changelog_file |-> changelog]
  ELSE IF previous.kind = "absent"
  THEN [pc |-> "done", previous_file |-> SavedFeed(feed),
        changelog_file |-> changelog]
  ELSE
    LET new_drivers == NewDrivers(feed, PrevKeys(previous.entries))
        entry ==
          [date |-> today,
           data |-> [added |-> [i \in DOMAIN new_drivers |->
                                  AddedRecord(new_drivers[i])],
                     removed |-> <<>>,
                     status_changes |-> <<>>]]
    IN  IF new_drivers = <<>>
        THEN [pc |-> "done", previous_file |-> SavedFeed(feed),
              changelog_file |-> changelog]
        ELSE IF changelog.kind \in {"malformed", "object"}
        THEN [pc |-> "raised", previous_file |-> previous,
              changelog_file |-> changelog]
        ELSE [pc |-> "done", previous_file |-> SavedFeed(feed),
              changelog_file |->
                [kind |-> "list", entries |-> Append(changelog.entries, entry)]]

\* entries of the feed: with an Id, with a hash and no Id, and with neither
FeedEntries ==
  {[Id |-> <<"1">>, Tags |-> <<f_dx>>,
    KnownVulnerableSamples |-> <<[SHA256 |-> h_ab]>>],
   [SHA256 |-> h_cd, Filename |-> f_ex],
   [Tags |-> <<f_ex>>, KnownVulnerableSamples |-> <<[MD5 |-> h_ef]>>]}

\* what loldrivers_previous.json holds before the first run
StoredBaselines(feed) ==
  {AbsentList, [kind |-> "malformed", entries |-> <<>>], SavedFeed(feed),
   SavedFeed(<<>>)}

InitLoldrivers ==
  /\ pc = "loldrivers_main"
  /\ \E n \in 0..MaxDrivers : latest \in [1..n -> FeedEntries]
  /\ previous_file \in StoredBaselines(latest)
  /\ changelog_file \in StoredChangelogs
  /\ old_file = AbsentFile
  /\ new_file = [name |-> <<>>, kind |-> "absent", json |-> EmptyDict]
  /\ shown = <<>>
  /\ CompareIdle
  /\ ByovdIdle

\* one run of loldrivers_changelog.py main
LoldriversMain ==
  /\ pc = "loldrivers_main"
  /\ \E today \in Todays :
       LET run == loldrivers_main(latest, previous_file, changelog_file, today)
       IN  /\ pc' = run.pc
           /\ previous_file' = run.previous_file
           /\ changelog_file' = run.changelog_file
  /\ UNCHANGED <<byovd_vars, compare_vars, old_file, new_file, shown, latest>>

\* the script is started again and fetches the feed: the same feed or the
\* feed with one more entry
Refetch ==
  /\ pc = "done"
  /\ Len(load_existing_changelog(changelog_file)) <= MaxEntries
  /\ \/ latest' = latest
     \/ /\ Len(latest) < MaxDrivers
        /\ \E entry \in FeedEntries : latest' = Append(latest, entry)
  /\ pc' = "loldrivers_main"
  /\ UNCHANGED <<byovd_vars, compare_vars, old_file, new_file, shown,
                 changelog_file, previous_file>>

NextLoldrivers ==
  \/ LoldriversMain
  \/ Refetch

SpecLoldrivers == InitLoldrivers /\ [][NextLoldrivers]_vars

(***************************************************************************)
(* Properties of byovd.py, checked under Spec.                             *)
(***************************************************************************)

\* the drivers the running loop has processed so far
Processed == SubSeq(loldrivers, 1, idx)

\* at least one of the three tests is true of the driver
SomeTestTrue(driver) ==
  \/ has_blocked_hash(driver, deny_hashes)
  \/ has_blocked_version(driver, deny_file_versions, file_attribs)
  \/ has_blocked_signer(driver, signer_info, file_attribs)

\* all three tests are false of the driver
AllTestsFalse(driver) ==
  /\ ~has_blocked_hash(driver, deny_hashes)
  /\ ~has_blocked_version(driver, deny_file_versions, file_attribs)
  /\ ~has_blocked_signer(driver, signer_info, file_attribs)

\* the driver_info records of a list of drivers
InfoOf(drivers) == [i \in DOMAIN drivers |-> DriverInfo(drivers[i])]

\* C1: in generate_json_results and in the console loop of main, the
\* processed drivers for which at least one of has_blocked_hash,
\* has_blocked_version, has_blocked_signer is true are exactly the blocked
\* ones, those for which all three are false are exactly the allowed ones, in
\* feed order; every processed driver is in one bucket and not in the other,
\* and when the run is done every driver of the feed has been processed.
C1_BlockedIffSomeTest ==
  /\ (json_output /\ pc \in {"generate_json_results", "done"}) =>
       /\ results.blocked_drivers = InfoOf(SelectSeq(Processed, SomeTestTrue))
       /\ results.allowed_drivers = InfoOf(SelectSeq(Processed, AllTestsFalse))
       /\ Len(results.blocked_drivers) + Len(results.allowed_drivers) = idx
  /\ (~json_output /\ pc \in {"console", "done"}) =>
       /\ blocked_count = Len(SelectSeq(Processed, SomeTestTrue))
       /\ printed = SelectSeq(Processed, AllTestsFalse)
       /\ allowed_count = Len(printed)
       /\ blocked_count + allowed_count = idx
  /\ pc = "done" => idx = Len(loldrivers)

\* a finished --json run with both buckets filled, one driver blocked by
\* a test other than the hash test
C1_Witness ==
  /\ pc = "done"
  /\ json_output
  /\ results.allowed_drivers # <<>>
  /\ \E i \in DOMAIN loldrivers :
       /\ ~has_blocked_hash(loldrivers[i], deny_hashes)
       /\ InList(DriverInfo(loldrivers[i]), results.blocked_drivers)
       /\ ~InList(DriverInfo(loldrivers[i]), results.allowed_drivers)

\* C2: in generate_json_results the counters of the summary equal the lengths
\* of the two lists after every processed driver, blocked_count +
\* allowed_count is the number of drivers processed so far, and in the
\* returned ResultSet total_drivers = blocked_count + allowed_count.
C2_CountsMatchLists ==
  /\ results.summary.blocked_count = Len(results.blocked_drivers)
  /\ results.summary.allowed_count = Len(results.allowed_drivers)
  /\ json_output =>
       results.summary.blocked_count + results.summary.allowed_count = idx
  /\ (json_output /\ pc = "done") =>
       results.summary.total_drivers =
         results.summary.blocked_count + results.summary.allowed_count

\* a returned ResultSet with drivers in both lists
C2_Witness ==
  /\ pc = "done"
  /\ json_output
  /\ results.summary.blocked_count >= 1
  /\ results.summary.allowed_count >= 1
  /\ results.summary.total_drivers >= 2

\* two characters are the same letter, whatever their case
SameLetter(c1, c2) ==
  \/ c1 = c2
  \/ \E i \in DOMAIN UpperCase : {c1, c2} = {UpperCase[i], LowerCase[i]}

\* two strings are equal ignoring case
EqualIgnoringCase(a, b) ==
  /\ Len(a) = Len(b)
  /\ \A i \in DOMAIN a : SameLetter(a[i], b[i])

\* the hash values the Deny rules of the policy document carry, as written
DeniedHashValues ==
  {DictGet(DenyRules(xml_doc)[i], "Hash", <<>>) : i \in DOMAIN DenyRules(xml_doc)}
    \ {<<>>}

\* the values of the six hash fields of a driver, as written
SixHashes(driver) ==
  ({DictGet(driver, k, <<>>) : k \in HashTypes}
     \cup (IF "Authentihash" \in DOMAIN driver
           THEN {DictGet(driver.Authentihash, k, <<>>) : k \in HashTypes}
           ELSE {})) \ {<<>>}

\* one of the six hashes of the driver is a denied hash, ignoring case
HashDenied(driver) ==
  \E h \in DeniedHashValues :
    \E v \in SixHashes(driver) : EqualIgnoringCase(v, h)

\* C3: in a finished run, the hash test is true of a driver of the feed
\* exactly when one of its six hashes equals, ignoring case, a hash some Deny
\* rule of the policy document carries, and such a driver has been classified
\* blocked (listed in blocked_drivers, or not printed as allowed).
C3_HashTestIgnoresCase ==
  pc = "done" =>
    \A i \in DOMAIN loldrivers :
      LET driver == loldrivers[i]
      IN  /\ has_blocked_hash(driver, deny_hashes) <=> HashDenied(driver)
          /\ (HashDenied(driver) /\ i <= idx /\ json_output) =>
               InList(DriverInfo(driver), results.blocked_drivers)
          /\ (HashDenied(driver) /\ i <= idx /\ ~json_output) =>
               ~InList(driver, printed)

\* a driver classified blocked on a hash the policy writes in another case
C3_Witness ==
  /\ pc = "done"
  /\ json_output
  /\ \E i \in DOMAIN loldrivers :
       /\ \E h \in DeniedHashValues :
            \E v \in SixHashes(loldrivers[i]) :
              v # h /\ Lower(h) # h /\ EqualIgnoringCase(v, h)
       /\ InList(DriverInfo(loldrivers[i]), results.blocked_drivers)
       /\ results.allowed_drivers = <<>>

\* the cleaned version: commas become dots, and the first blank-delimited
\* token is kept
CleanedVersion(raw) ==
  LET starts == {i \in DOMAIN raw : raw[i] # " "}
  IN  IF starts = {} THEN <<>>
      ELSE LET first == CHOOSE i \in starts : \A j \in starts : i <= j
               blanks == {i \in DOMAIN raw : i > first /\ raw[i] = " "}
               last == IF blanks = {} THEN Len(raw)
                       ELSE (CHOOSE i \in blanks : \A j \in blanks : i <= j) - 1
           IN  [i \in 1..(last - first + 1) |->
                  IF raw[first + i - 1] = "," THEN "." ELSE raw[first + i - 1]]

\* s is a dotted list of decimal numbers
DottedNumeric(s) ==
  /\ s # <<>>
  /\ \A i \in DOMAIN s : IsDigit(s[i]) \/ s[i] = "."
  /\ s[1] # "." /\ s[Len(s)] # "."
  /\ \A i \in 1..(Len(s) - 1) : ~(s[i] = "." /\ s[i + 1] = ".")

\* the numeric components of a dotted list, padded with zeros to n
Components(s, n) ==
  LET parts == SplitDots(s, <<>>)
  IN  [i \in 1..n |-> IF i <= Len(parts) THEN ToInt(parts[i], 0) ELSE 0]

\* a <= b, comparing the dotted components as numbers from the left
ComponentwiseLeq(a, b) ==
  /\ DottedNumeric(a)
  /\ DottedNumeric(b)
  /\ LET n == Len(a) + Len(b)
         ca == Components(a, n)
         cb == Components(b, n)
     IN  \/ ca = cb
         \/ \E k \in 1..n : /\ \A j \in 1..(k - 1) : ca[j] = cb[j]
                            /\ ca[k] < cb[k]

\* the driver has a file name with a ceiling and a non-empty FileVersion
HasCeiling(driver) ==
  /\ DictGet(driver, "OriginalFilename", <<>>) # <<>>
  /\ Lower(driver.OriginalFilename) \in DOMAIN deny_file_versions
  /\ DictGet(driver, "FileVersion", <<>>) # <<>>

\* the ceiling of the driver's file name
CeilingOf(driver) == deny_file_versions[Lower(driver.OriginalFilename)]

\* C4: in a finished run, for a driver of the feed with a non-empty
\* OriginalFilename that is, lowercased, a key of deny_file_versions and a
\* non-empty FileVersion, has_blocked_version is true exactly when the
\* cleaned version is at most the ceiling, comparing the dotted components as
\* numbers: equal versions are blocked, 9.0 under the ceiling 10.0 is blocked
\* and 10.0 under the ceiling 9.0 is not.
C4_VersionCeiling ==
  pc = "done" =>
    \A i \in DOMAIN loldrivers :
      LET driver == loldrivers[i]
          blocked == has_blocked_version(driver, deny_file_versions, file_attribs)
      IN  HasCeiling(driver) =>
            LET cleaned == CleanedVersion(driver.FileVersion)
            IN  /\ blocked <=> ComponentwiseLeq(cleaned, CeilingOf(driver))
                /\ (DottedNumeric(cleaned) /\ cleaned = CeilingOf(driver))
                     => blocked
                /\ (cleaned = v_9_0 /\ CeilingOf(driver) = v_10_0) => blocked
                /\ (cleaned = v_10_0 /\ CeilingOf(driver) = v_9_0) => ~blocked

\* a driver whose version had to be cleaned, blocked as 9.0 under 10.0, next
\* to a driver at the ceiling itself
C4_Witness ==
  /\ pc = "done"
  /\ \E i, j \in DOMAIN loldrivers :
       /\ HasCeiling(loldrivers[i]) /\ HasCeiling(loldrivers[j])
       /\ loldrivers[i].FileVersion # v_9_0
       /\ CleanedVersion(loldrivers[i].FileVersion) = v_9_0
       /\ CeilingOf(loldrivers[i]) = v_10_0
       /\ has_blocked_version(loldrivers[i], deny_file_versions, file_attribs)
       /\ loldrivers[j].FileVersion = v_10_0
       /\ has_blocked_version(loldrivers[j], deny_file_versions, file_attribs)

\* the elements of a list
Elements(lst) == {lst[i] : i \in DOMAIN lst}

\* the lowercased TBS hashes of the certificates of the driver
TBSHashes(driver) ==
  IF "Signatures" \notin DOMAIN driver THEN {}
  ELSE UNION {
         UNION {
           IF "TBS" \in DOMAIN cert
           THEN {Lower(cert.TBS[t]) : t \in TBSHashTypes \cap DOMAIN cert.TBS}
           ELSE {} :
           cert \in IF "Certificates" \in DOMAIN sig
                    THEN Elements(sig.Certificates) ELSE {}} :
         sig \in Elements(driver.Signatures)}

\* the rule ids the driver's file name resolves to through file_attribs
RuleIdsOfFilename(driver) ==
  LET name == Lower(DictGet(driver, "OriginalFilename", <<>>))
  IN  IF name \in DOMAIN file_attribs THEN {file_attribs[name]} ELSE {}

\* signer S holds a TBS hash of the driver and is unscoped or scoped to it
SignerBlocks(signer, driver) ==
  /\ Elements(signer.cert_roots) \cap TBSHashes(driver) # {}
  /\ \/ signer.file_attrib_refs = <<>>
     \/ RuleIdsOfFilename(driver) \cap Elements(signer.file_attrib_refs) # {}

\* C5: in a finished run, has_blocked_signer is true of a driver of the feed
\* exactly when some signer holds one of its lowercased TBS hashes in
\* cert_roots and either has no file_attrib_refs or has among them the rule id
\* that file_attribs gives for the driver's lowercased OriginalFilename.
C5_SignerTest ==
  pc = "done" =>
    \A i \in DOMAIN loldrivers :
      has_blocked_signer(loldrivers[i], signer_info, file_attribs)
        <=> \E k \in DOMAIN signer_info :
              SignerBlocks(signer_info[k], loldrivers[i])

\* one feed with a driver blocked through a scoped signer by its file name,
\* and a driver with the same certificate and another file name not blocked
C5_Witness ==
  /\ pc = "done"
  /\ \A k \in DOMAIN signer_info : signer_info[k].file_attrib_refs # <<>>
  /\ \E i, j \in DOMAIN loldrivers :
       /\ has_blocked_signer(loldrivers[i], signer_info, file_attribs)
       /\ ~has_blocked_signer(loldrivers[j], signer_info, file_attribs)
       /\ "Signatures" \in DOMAIN loldrivers[j]
       /\ loldrivers[i].Signatures = loldrivers[j].Signatures
       /\ \E k \in DOMAIN signer_info :
            Elements(signer_info[k].cert_roots) \cap TBSHashes(loldrivers[j]) # {}

\* C6: for every Deny rule of the document with a non-empty FileName F and a
\* MaximumFileVersion V, every driver whose OriginalFilename is F ignoring
\* case and whose cleaned FileVersion is at most V is classified blocked once
\* the loop has processed it, whatever the other Deny rules are.
C6_EveryCeilingBlocks ==
  pc \in {"generate_json_results", "console", "done"} =>
    \A r \in DOMAIN DenyRules(xml_doc) :
      LET rule == DenyRules(xml_doc)[r]
      IN  (DictGet(rule, "FileName", <<>>) # <<>>
             /\ DictGet(rule, "MaximumFileVersion", <<>>) # <<>>) =>
            \A i \in DOMAIN loldrivers :
              LET driver == loldrivers[i]
              IN  (/\ EqualIgnoringCase(
                        DictGet(driver, "OriginalFilename", <<>>), rule.FileName)
                   /\ ComponentwiseLeq(
                        CleanedVersion(DictGet(driver, "FileVersion", <<>>)),
                        rule.MaximumFileVersion))
                    => /\ (i <= idx /\ json_output) =>
                            InList(DriverInfo(driver), results.blocked_drivers)
                       /\ (i <= idx /\ ~json_output) =>
                            ~InList(driver, printed)

(***************************************************************************)
(* Properties of compare_hvci.py, checked under SpecCompare.               *)
(***************************************************************************)

\* the signatures of the records of a list
SigsOf(drivers) == {get_driver_signature(drivers[i]) : i \in DOMAIN drivers}

OldAllowedSigs == SigsOf(old_data.allowed_drivers)
OldBlockedSigs == SigsOf(old_data.blocked_drivers)
NewAllowedSigs == SigsOf(new_data.allowed_drivers)
NewBlockedSigs == SigsOf(new_data.blocked_drivers)
OldUnion == OldAllowedSigs \cup OldBlockedSigs
NewUnion == NewAllowedSigs \cup NewBlockedSigs

\* the records of the two snapshots
OldRecords == Elements(old_data.allowed_drivers \o old_data.blocked_drivers)
NewRecords == Elements(new_data.allowed_drivers \o new_data.blocked_drivers)

\* the record has the key with a value other than None and ""
Present(driver, key) ==
  key \in DOMAIN driver /\ driver[key] # Null /\ driver[key] # <<>>

\* the first of sha256, sha1, md5 the record has, or "file"
BranchOf(driver) ==
  IF Present(driver, "sha256") THEN "sha256"
  ELSE IF Present(driver, "sha1") THEN "sha1"
  ELSE IF Present(driver, "md5") THEN "md5"
  ELSE "file"

\* the signature the priority rule asks for
ExpectedSignature(driver) ==
  CASE BranchOf(driver) = "sha256" -> Prefix_sha256 \o Lower(driver.sha256)
    [] BranchOf(driver) = "sha1" -> Prefix_sha1 \o Lower(driver.sha1)
    [] BranchOf(driver) = "md5" -> Prefix_md5 \o Lower(driver.md5)
    [] BranchOf(driver) = "file" ->
         Prefix_file \o Format(DictGet(driver, "filename", unknown)) \o <<"_">>
           \o Format(DictGet(driver, "driver_id", unknown))

\* the map holds, under each signature of the list and no other key, a
\* record of the list with that signature
MapOfList(driver_map, drivers) ==
  /\ DOMAIN driver_map = SigsOf(drivers)
  /\ \A signature \in DOMAIN driver_map :
       /\ driver_map[signature] \in Elements(drivers)
       /\ get_driver_signature(driver_map[signature]) = signature

\* C7: every record of the old and of the new snapshot resolves by strict
\* priority to "sha256:" + lowercase sha256, else "sha1:" + lowercase sha1,
\* else "md5:" + lowercase md5, else the "file:" key of filename and
\* driver_id; records resolved by different branches never have equal
\* signatures; and the four maps of compare_drivers are keyed by that same
\* function for the old and the new snapshot alike.
C7_SignaturePriority ==
  /\ \A driver \in OldRecords \cup NewRecords :
       get_driver_signature(driver) = ExpectedSignature(driver)
  /\ \A d1, d2 \in SavedRecords \cup OldRecords \cup NewRecords :
       BranchOf(d1) # BranchOf(d2) =>
         get_driver_signature(d1) # get_driver_signature(d2)
  /\ pc = "compared" =>
       /\ MapOfList(old_allowed_map, old_data.allowed_drivers)
       /\ MapOfList(old_blocked_map, old_data.blocked_drivers)
       /\ MapOfList(new_allowed_map, new_data.allowed_drivers)
       /\ MapOfList(new_blocked_map, new_data.blocked_drivers)

\* the same hash, resolved as sha256 in the old snapshot and as sha1 in the
\* new one, is reported as one record removed and one added
C7_Witness ==
  /\ pc = "compared"
  /\ \E d1 \in OldRecords, d2 \in NewRecords :
       /\ BranchOf(d1) = "sha256"
       /\ BranchOf(d2) = "sha1"
       /\ Lower(d1.sha256) = Lower(d2.sha1)
  /\ \E d \in OldRecords \cup NewRecords : BranchOf(d) \in {"md5", "file"}
  /\ comparison.summary.total_removed >= 1
  /\ comparison.summary.total_added >= 1

\* C8: compare_drivers of a ResultSet with itself returns empty
\* removed_allowed, removed_blocked, added_allowed, added_blocked and
\* status_changes, and every count of the summary is 0.
C8_SelfCompareEmpty ==
  (pc = "compared" /\ old_data = new_data) =>
    /\ comparison.removed_allowed = <<>>
    /\ comparison.removed_blocked = <<>>
    /\ comparison.added_allowed = <<>>
    /\ comparison.added_blocked = <<>>
    /\ comparison.status_changes = <<>>
    /\ \A count \in DOMAIN comparison.summary : comparison.summary[count] = 0

\* a ResultSet compared with itself in which two different records share a
\* signature, one in the allowed and one in the blocked list
C8_Witness ==
  /\ pc = "compared"
  /\ old_data = new_data
  /\ OldAllowedSigs \cap OldBlockedSigs # {}
  /\ Elements(old_data.allowed_drivers) \cap Elements(old_data.blocked_drivers) = {}

\* the signatures of a list of records, in list order
SigList(drivers) == [i \in DOMAIN drivers |-> get_driver_signature(drivers[i])]

\* no element occurs twice in the list
NoDuplicates(lst) == \A i, j \in DOMAIN lst : lst[i] = lst[j] => i = j

\* C9: compare_drivers reports as removed exactly the signatures of the old
\* union that are not in the new union, each once, in removed_allowed if the
\* signature is in old_allowed and else in removed_blocked; and as added
\* exactly the signatures of the new union that are not in the old union,
\* each once, in added_allowed if in new_allowed and else in added_blocked.
C9_RemovedAndAdded ==
  pc = "compared" =>
    LET removed_allowed == SigList(comparison.removed_allowed)
        removed_blocked == SigList(comparison.removed_blocked)
        added_allowed == SigList(comparison.added_allowed)
        added_blocked == SigList(comparison.added_blocked)
    IN  /\ Elements(removed_allowed \o removed_blocked) = OldUnion \ NewUnion
        /\ NoDuplicates(removed_allowed \o removed_blocked)
        /\ Elements(removed_allowed) \subseteq OldAllowedSigs
        /\ Elements(removed_blocked) \cap OldAllowedSigs = {}
        /\ Elements(added_allowed \o added_blocked) = NewUnion \ OldUnion
        /\ NoDuplicates(added_allowed \o added_blocked)
        /\ Elements(added_allowed) \subseteq NewAllowedSigs
        /\ Elements(added_blocked) \cap NewAllowedSigs = {}

\* a comparison with an allowed and a blocked record removed and one added
C9_Witness ==
  /\ pc = "compared"
  /\ comparison.removed_allowed # <<>>
  /\ comparison.removed_blocked # <<>>
  /\ comparison.added_allowed \o comparison.added_blocked # <<>>

\* the signatures of both snapshots whose allowed status differs
ChangedSigs ==
  {s \in OldUnion \cap NewUnion : (s \in OldAllowedSigs) # (s \in NewAllowedSigs)}

\* C10: compare_drivers emits a status_changes record for a signature exactly
\* when it is in the old and the new union and is in old_allowed but not in
\* new_allowed or the reverse; the record carries a record of the new
\* snapshot with that signature and old_status and new_status labels that
\* differ; a signature of both snapshots whose status is unchanged is in none
\* of added, removed and status_changes.
C10_StatusChanges ==
  pc = "compared" =>
    LET changes == comparison.status_changes
        changed == [i \in DOMAIN changes |-> get_driver_signature(changes[i].driver)]
        reported ==
          Elements(changed)
            \cup SigsOf(comparison.removed_allowed \o comparison.removed_blocked)
            \cup SigsOf(comparison.added_allowed \o comparison.added_blocked)
    IN  /\ Elements(changed) = ChangedSigs
        /\ NoDuplicates(changed)
        /\ \A i \in DOMAIN changes :
             /\ changes[i].driver \in NewRecords
             /\ changes[i].old_status # changes[i].new_status
             /\ changes[i].old_status =
                  IF changed[i] \in OldAllowedSigs THEN "allowed" ELSE "blocked"
             /\ changes[i].new_status =
                  IF changed[i] \in NewAllowedSigs THEN "allowed" ELSE "blocked"
        /\ \A s \in (OldUnion \cap NewUnion) \ ChangedSigs : s \notin reported

\* a status change from allowed to blocked whose record is the new
\* snapshot's and not the old one's, next to a record that was removed
C10_Witness ==
  /\ pc = "compared"
  /\ \E i \in DOMAIN comparison.status_changes :
       /\ comparison.status_changes[i].driver \notin OldRecords
       /\ comparison.status_changes[i].old_status = "allowed"
       /\ comparison.status_changes[i].new_status = "blocked"
  /\ comparison.summary.total_removed = 1

(***************************************************************************)
(* Properties of the changelog, checked under SpecChangelog.               *)
(***************************************************************************)

\* the sequence of entries the changelog file stores: its list, and the
\* empty sequence when the file is missing or holds no list
StoredSequence(file) == IF file.kind = "list" THEN file.entries ELSE <<>>

\* the diff has no added, removed or status_changes entries
EmptyDiff(cmp) ==
  /\ cmp.removed_allowed \o cmp.removed_blocked = <<>>
  /\ cmp.added_allowed \o cmp.added_blocked = <<>>
  /\ cmp.status_changes = <<>>

\* C11: every save_changelog call with an empty diff leaves the changelog
\* file as it was, and every call with a non-empty diff leaves the stored
\* sequence equal to the previously stored sequence with exactly one entry
\* {date, data} appended at the end, every prior entry unchanged and in its
\* prior position.
C11_AppendOnly ==
  [][(pc = "compared" /\ pc' = "saved") =>
       IF EmptyDiff(comparison)
       THEN changelog_file' = changelog_file
       ELSE /\ changelog_file'.kind = "list"
            /\ Len(StoredSequence(changelog_file')) =
                 Len(StoredSequence(changelog_file)) + 1
            /\ SubSeq(StoredSequence(changelog_file'), 1,
                      Len(StoredSequence(changelog_file))) =
                 StoredSequence(changelog_file)
            /\ DOMAIN changelog_file'.entries[Len(changelog_file'.entries)] =
                 {"date", "data"}]_vars

\* a call with an empty diff has returned on a changelog to which an
\* earlier call appended after the entry it held at the start
C11_Witness ==
  /\ pc = "saved"
  /\ EmptyDiff(comparison)
  /\ Len(StoredSequence(changelog_file)) = 2
  /\ changelog_file.entries[1] = PriorEntry
  /\ changelog_file.entries[2].data.status_changes # <<>>

\* the result file exists and holds text that is not JSON or JSON without
\* the keys of a ResultSet
Unusable(file) ==
  \/ file.kind = "malformed"
  \/ file.kind = "json" /\ ~(required_keys \subseteq DOMAIN file.json)

\* C13: when a saved result file or the changelog file exists but holds
\* malformed JSON or JSON of the wrong structure, the run reports it and
\* continues with an empty baseline instead of terminating: a run whose
\* result files exist never ends in load_json_file, and a changelog file
\* that holds no list counts as the empty changelog.
C13_MalformedStartsFresh ==
  /\ (pc = "exit") => (old_file.kind = "absent" \/ new_file.kind = "absent")
  /\ (Unusable(old_file) /\ new_file.kind # "absent") =>
       (pc # "compare_main" => old_data = NoResults /\ pc # "exit")
  /\ changelog_file.kind \in {"malformed", "object"} =>
       load_existing_changelog(changelog_file) = <<>>

\* <<year, month, day>> of a date DD-MM-YYYY
CalendarDay(date) ==
  <<ToInt(SubSeq(date, 7, 10), 0), ToInt(SubSeq(date, 4, 5), 0),
    ToInt(SubSeq(date, 1, 2), 0)>>

\* the calendar date a is later than the calendar date b
CalendarLater(a, b) ==
  CalendarDay(a) # CalendarDay(b) /\ TupleLeq(CalendarDay(b), CalendarDay(a))

\* C14: display_changelog_history lists the entries newest first: of two
\* displayed entries with dates DD-MM-YYYY, as save_changelog and
\* loldrivers_changelog.main write them, the one with the later calendar
\* date is displayed before the one with the earlier calendar date.
C14_NewestFirst ==
  pc = "shown" =>
    \A i, j \in DOMAIN shown :
      i < j => ~CalendarLater(shown[j], shown[i])

\* the hash that identifies the record under the priority of
\* get_driver_signature, and 'N/A' when it has none of the three
PriorityHash(driver) ==
  CASE BranchOf(driver) = "sha256" -> driver.sha256
    [] BranchOf(driver) = "sha1" -> driver.sha1
    [] BranchOf(driver) = "md5" -> driver.md5
    [] BranchOf(driver) = "file" -> NotAvailable

\* C15: in every record that format_changes_for_changelog writes into a
\* changelog entry (removed, added and status_changes) the hash field is the
\* record's sha256 if it is present and non-empty, else its sha1, else its
\* md5, and 'N/A' only when the record has none of the three, for records
\* as generate_json_results writes them (the three keys always present,
\* None where the driver lacks the hash).
C15_HashIdentifiesRecord ==
  (pc = "saved" /\ ~EmptyDiff(comparison)) =>
    LET written == changelog_file.entries[Len(changelog_file.entries)].data
        removed == comparison.removed_allowed \o comparison.removed_blocked
        added == comparison.added_allowed \o comparison.added_blocked
    IN  /\ \A i \in DOMAIN removed :
             written.removed[i].hash = PriorityHash(removed[i])
        /\ \A i \in DOMAIN added :
             written.added[i].hash = PriorityHash(added[i])
        /\ \A i \in DOMAIN comparison.status_changes :
             written.status_changes[i].hash =
               PriorityHash(comparison.status_changes[i].driver)

(***************************************************************************)
(* Properties of byovd.py on absent and empty values, checked under        *)
(* SpecNulls.                                                              *)
(***************************************************************************)

\* the sub-test has no input in the driver: the field it reads is absent,
\* None or empty
NoHashInput(driver) == \A h \in SixHashes(driver) : ~Truthy(h)

NoVersionInput(driver) ==
  \/ ~Truthy(DictGet(driver, "OriginalFilename", <<>>))
  \/ ~Truthy(DictGet(driver, "FileVersion", <<>>))

\* C12: classification never fails on a driver record: whichever optional
\* fields of a driver are absent or carry no value, and whatever its
\* FileVersion and the ceiling are, the three sub-tests return a boolean
\* without raising, so the loop processes every driver of the feed; a
\* sub-test whose input is absent returns false.
C12_NeverRaises ==
  /\ pc # "raised"
  /\ \A i \in 1..Len(loldrivers) :
       /\ NoHashInput(loldrivers[i]) =>
            ~has_blocked_hash(loldrivers[i], deny_hashes)
       /\ NoVersionInput(loldrivers[i]) =>
            ~has_blocked_version(loldrivers[i], deny_file_versions, file_attribs)

(***************************************************************************)
(* Properties of loldrivers_changelog.py, checked under SpecLoldrivers.    *)
(***************************************************************************)

\* C16: main is idempotent on an unchanged feed: a run that completes on a
\* feed equal to the stored baseline (the feed of the run before it),
\* entries without Id and hash included, leaves the changelog file as it
\* was; and whenever a run has completed the stored baseline equals the
\* feed it fetched.
C16_Idempotent ==
  /\ [][(/\ pc = "loldrivers_main"
         /\ pc' = "done"
         /\ previous_file = SavedFeed(latest))
        => changelog_file' = changelog_file]_vars
  /\ [](pc = "done" => previous_file = SavedFeed(latest))
====
